---- MODULE Spec2Model ----
(***************************************************************************)
(* Model of scripts/download_kfda_foods.py: the pagination / retry loop of *)
(* download_all_foods, the item normalizer parse_food_item and the         *)
(* deduplicator deduplicate_foods.                                         *)
(*                                                                         *)
(* Python values are encoded as follows.                                   *)
(*   str            a sequence of one-character strings                    *)
(*   Optional[str]  PyNone or Str(s)                                       *)
(*   int            its sign and its decimal digits                        *)
(*   float          NaN, Inf(neg) or the decimal Dec(neg, m, e) whose      *)
(*                  nearest double it is, m being its digits               *)
(*   time           tenths of a second (RATE_LIMIT_DELAY is 0.2 s)         *)
(***************************************************************************)
EXTENDS Integers, Sequences, FiniteSets, TLC

VARIABLES
    state,          \* "FETCHING" while the loop runs, "DONE" / "ABORTED" after a return
    include_all,    \* parameter of download_all_foods
    all_foods,      \* accumulated canonical records
    page_no,        \* current page number
    total_count,    \* NoneCount until a status-"00" body supplied a value
    fetched_count,  \* raw items seen
    skipped_count,  \* items dropped by the classification filter
    retry_count,    \* per-page retry counter
    last,           \* observation: the latest attempt: its page, its outcome, the retry
                    \* counter it left, the raw items of its response and their
                    \* number, its rank among the attempts on that page, the
                    \* number of "22" answers that page has had, and whether every
                    \* attempt of the run so far was answered with a result code
                    \* other than "00" and "03"
    slept,          \* observation: the time.sleep calls of the latest attempt, in order
    page_start,     \* observation: all_foods as it was when the current page was entered
    count_start,    \* observation: <<fetched_count, skipped_count>> at that moment
    foods,          \* argument handed to deduplicate_foods
    unique,         \* its result
    again,          \* the result of applying it to its own result
    dpc,            \* position of the deduplication run
    mpc,            \* position of main: "download", then "exit1" or "saved"
    output_data,    \* the payload main writes
    item,           \* raw item handed to parse_food_item
    parsed,         \* its result
    ppc             \* position of the normalization run

dlvars == <<state, include_all, all_foods, page_no, total_count, fetched_count,
            skipped_count, retry_count, last, slept, page_start, count_start>>
ddvars == <<foods, unique, again, dpc>>
mvars == <<mpc, output_data>>
pvars == <<item, parsed, ppc>>
vars == <<state, include_all, all_foods, page_no, total_count, fetched_count,
          skipped_count, retry_count, last, slept, page_start, count_start,
          foods, unique, again, dpc, mpc, output_data, item, parsed, ppc>>

----------------------------------------------------------------------------
(* Bounds of the exploration.                                              *)

MaxPage == 2        \* page numbers 1..MaxPage are fetched
MaxLen == 3         \* length of the lists handed to deduplicate_foods

----------------------------------------------------------------------------
(* Python values.                                                          *)

PyNone == [t |-> "None"]
Str(s) == [t |-> "str", v |-> s]

Digits == <<"0", "1", "2", "3", "4", "5", "6", "7", "8", "9">>
DigitValues == [c \in {Digits[i] : i \in 1..10} |-> (CHOOSE i \in 1..10 : Digits[i] = c) - 1]
IsDigit(c) == c \in DOMAIN DigitValues
DigitVal(c) == DigitValues[c]

\* str(n) for a natural number n
RECURSIVE NatToStr(_)
NatToStr(n) ==
    IF n < 10 THEN <<Digits[n + 1]>> ELSE NatToStr(n \div 10) \o <<Digits[(n % 10) + 1]>>

\* a JSON integer as the value of a field: its sign and the digits of its
\* magnitude, without leading zeros
PyBigInt(neg, digits) == [t |-> "int", neg |-> neg, digits |-> digits]
PyInt(n) == PyBigInt(n < 0, NatToStr(IF n < 0 THEN 0 - n ELSE n))

\* `not x` for a field value x: None, "" and 0 are falsy
Falsy(x) ==
    x = PyNone \/ (x.t = "str" /\ x.v = <<>>) \/ (x.t = "int" /\ x.digits = <<"0">>)

\* `x or ""` for a field value x that is falsy or a str
OrEmpty(x) == IF Falsy(x) THEN <<>> ELSE x.v

\* `(x or "").strip()` raises AttributeError: x is truthy and not a str
StripRaises(x) == ~Falsy(x) /\ x.t # "str"

\* truthiness of an Optional[str]
Truthy(x) == x # PyNone /\ x.v # <<>>

\* the ASCII characters for which str.isspace() holds: space, \t, \n, \r,
\* \f, \v and the separators \x1c .. \x1f
VT == ""
FS == ""
GS == ""
RS == ""
US == ""
Whitespace == {" ", "\t", "\n", "\r", "\f", VT, FS, GS, RS, US}

IsSpace(c) == c \in Whitespace

\* index of the first character of s that is not in the set ws, Len(s) + 1
\* when there is none
FirstOutside(s, ws) ==
    IF \A i \in 1..Len(s) : s[i] \in ws THEN Len(s) + 1
    ELSE CHOOSE i \in 1..Len(s) : s[i] \notin ws /\ \A j \in 1..(i - 1) : s[j] \in ws

\* index of the last character of s that is not in the set ws, 0 when there
\* is none
LastOutside(s, ws) ==
    IF \A i \in 1..Len(s) : s[i] \in ws THEN 0
    ELSE CHOOSE i \in 1..Len(s) : s[i] \notin ws /\ \A j \in (i + 1)..Len(s) : s[j] \in ws

LStrip(s) == SubSeq(s, FirstOutside(s, Whitespace), Len(s))

RStrip(s) == SubSeq(s, 1, LastOutside(s, Whitespace))

\* str.strip()
Strip(s) == RStrip(LStrip(s))

\* str.replace(",", "")
RemoveCommas(s) == SelectSeq(s, LAMBDA c : c # ",")

\* str(value) for a field value that is a str or an integer
PyStr(x) ==
    IF x.t = "str" THEN x.v
    ELSE (IF x.neg THEN <<"-">> ELSE <<>>) \o x.digits

\* index of the first "." of s, 0 when there is none
DotAt(s) == IF \E i \in 1..Len(s) : s[i] = "."
            THEN CHOOSE i \in 1..Len(s) : s[i] = "." /\ \A j \in 1..(i - 1) : s[j] # "."
            ELSE 0

----------------------------------------------------------------------------
(* float(s) and round(x, 2).                                               *)

\* the ASCII characters float() skips before and after the literal (the
\* separators \x1c .. \x1f are not among them)
FloatSpace == {" ", "\t", "\n", "\r", "\f", VT}

FloatStrip(s) == SubSeq(s, FirstOutside(s, FloatSpace), LastOutside(s, FloatSpace))

UpperCase == <<"A", "B", "C", "D", "E", "F", "G", "H", "I", "J", "K", "L", "M",
               "N", "O", "P", "Q", "R", "S", "T", "U", "V", "W", "X", "Y", "Z">>
LowerCase == <<"a", "b", "c", "d", "e", "f", "g", "h", "i", "j", "k", "l", "m",
               "n", "o", "p", "q", "r", "s", "t", "u", "v", "w", "x", "y", "z">>
LowerOf == [c \in {UpperCase[i] : i \in 1..26} |->
               LowerCase[CHOOSE i \in 1..26 : UpperCase[i] = c]]
Lower(c) == IF c \in DOMAIN LowerOf THEN LowerOf[c] ELSE c
LowerStr(s) == [i \in 1..Len(s) |-> Lower(s[i])]

\* the literal without its sign
Unsigned(s) == IF s # <<>> /\ Head(s) \in {"+", "-"} THEN Tail(s) ELSE s

IsInfWord(s) ==
    /\ Len(s) \in {3, 8}
    /\ LowerStr(s) \in {<<"i", "n", "f">>, <<"i", "n", "f", "i", "n", "i", "t", "y">>}
IsNanWord(s) == Len(s) = 3 /\ LowerStr(s) = <<"n", "a", "n">>

\* digits, with single underscores between digits only
IsDigitPart(s) ==
    /\ s # <<>>
    /\ \A i \in 1..Len(s) :
           \/ IsDigit(s[i])
           \/ /\ s[i] = "_"
              /\ 1 < i
              /\ i < Len(s)
              /\ IsDigit(s[i - 1])
              /\ IsDigit(s[i + 1])

\* the digits of s, in order
DigitsOf(s) == SelectSeq(s, IsDigit)

\* index of the first "e" or "E" of s, 0 when there is none
ExpAt(s) == IF \E i \in 1..Len(s) : Lower(s[i]) = "e"
            THEN CHOOSE i \in 1..Len(s) :
                     Lower(s[i]) = "e" /\ \A j \in 1..(i - 1) : Lower(s[j]) # "e"
            ELSE 0

\* the literal mant [e expo] split at the first "." of mant, at index d
SplitAtDot(mant, d, hasexp, expo) ==
    [ip |-> IF d = 0 THEN mant ELSE SubSeq(mant, 1, d - 1),
     fp |-> IF d = 0 THEN <<>> ELSE SubSeq(mant, d + 1, Len(mant)),
     hasexp |-> hasexp,
     expo |-> expo]

SplitMantissa(mant, hasexp, expo) == SplitAtDot(mant, DotAt(mant), hasexp, expo)

\* the literal s split at its first "e" or "E", at index x
SplitAtExp(s, x) ==
    SplitMantissa(IF x = 0 THEN s ELSE SubSeq(s, 1, x - 1),
                  x # 0,
                  IF x = 0 THEN <<>> ELSE SubSeq(s, x + 1, Len(s)))

\* integer part, fraction part and exponent of an unsigned literal
FloatParts(s) == SplitAtExp(s, ExpAt(s))

ValidParts(p) ==
    /\ p.ip = <<>> \/ IsDigitPart(p.ip)
    /\ p.fp = <<>> \/ IsDigitPart(p.fp)
    /\ Len(p.ip) + Len(p.fp) > 0
    /\ p.hasexp => IsDigitPart(Unsigned(p.expo))

IsDecimalLiteral(s) == ValidParts(FloatParts(s))

IsUnsignedLiteral(u) == IsInfWord(u) \/ IsNanWord(u) \/ IsDecimalLiteral(u)

\* float(s) succeeds: optional whitespace around an optionally signed
\* "inf", "infinity", "nan" (in any case) or decimal literal with optional
\* exponent
IsFloatLiteral(s) == IsUnsignedLiteral(Unsigned(FloatStrip(s)))

\* float values.  A finite one is written as the decimal (-1)^neg * m * 10^e,
\* m being a string of digits with neither leading nor trailing zeros (0 is
\* m = "0", e = 0), and stands for the double nearest to that decimal.
Inf(neg) == [t |-> "inf", neg |-> neg]
NaN == [t |-> "nan"]
Dec(neg, m, e) == [t |-> "float", neg |-> neg, m |-> m, e |-> e]

DropLeadingZeros(s) == SubSeq(s, FirstOutside(s, {"0"}), Len(s))

DropTrailingZeros(s) == SubSeq(s, 1, LastOutside(s, {"0"}))

\* the decimal sig * 10^e, sig without trailing zeros
Scaled(neg, sig, e) ==
    IF DropLeadingZeros(sig) = <<>> THEN Dec(neg, <<"0">>, 0)
    ELSE Dec(neg, DropLeadingZeros(sig), e)

\* the decimal digits * 10^e
DecimalValue(neg, digits, e) ==
    Scaled(neg, DropTrailingZeros(digits), e + Len(digits) - Len(DropTrailingZeros(digits)))

\* Natural numbers of any size are sequences of digit values, the most
\* significant first; the empty sequence is 0.
ValuesOf(s) == [i \in 1..Len(s) |-> DigitVal(s[i])]
CharsOf(a) == [i \in 1..Len(a) |-> Digits[a[i] + 1]]

\* a without its leading zeros
BigNorm(a) == SubSeq(a, FirstOutside(a, {0}), Len(a))

\* a * k + carry for 0 <= carry <= k <= 2^27: its low Len(a) digits, and the
\* rest as the carry out.  The number is split in two halves, the low one
\* handing its carry to the high one.
RECURSIVE MulDigits(_, _, _)
MulHigh(hi, lo) == [digits |-> hi.digits \o lo.digits, carry |-> hi.carry]
MulLow(a, k, h, lo) ==
    IF lo.carry = 0 /\ k = 1 THEN [digits |-> SubSeq(a, 1, h) \o lo.digits, carry |-> 0]
    ELSE MulHigh(MulDigits(SubSeq(a, 1, h), k, lo.carry), lo)
MulDigits(a, k, carry) ==
    IF a = <<>> THEN [digits |-> <<>>, carry |-> carry]
    ELSE IF Len(a) = 1
    THEN [digits |-> <<(a[1] * k + carry) % 10>>, carry |-> (a[1] * k + carry) \div 10]
    ELSE MulLow(a, k, Len(a) \div 2,
                MulDigits(SubSeq(a, (Len(a) \div 2) + 1, Len(a)), k, carry))

\* the digits of the carry r.carry before the digits r.digits
WithCarry(r) == BigNorm(ValuesOf(NatToStr(r.carry)) \o r.digits)

BigMul(a, k) == WithCarry(MulDigits(a, k, 0))

\* the digits q of the quotient of rem * 10^Len(a) + a by k and its remainder
\* r, for 0 <= rem < k <= 2^27.  The number is split in two halves, the
\* high one handing its remainder to the low one.
RECURSIVE DivDigits(_, _, _)
DivLow(hi, lo) == [q |-> hi.q \o lo.q, r |-> lo.r]
DivHigh(a, k, h, hi) == DivLow(hi, DivDigits(SubSeq(a, h + 1, Len(a)), k, hi.r))
DivDigits(a, k, rem) ==
    IF a = <<>> THEN [q |-> <<>>, r |-> rem]
    ELSE IF Len(a) = 1
    THEN [q |-> <<(rem * 10 + a[1]) \div k>>, r |-> (rem * 10 + a[1]) % k]
    ELSE DivHigh(a, k, Len(a) \div 2, DivDigits(SubSeq(a, 1, Len(a) \div 2), k, rem))

WithoutZeros(d) == [q |-> BigNorm(d.q), r |-> d.r]

\* quotient q and remainder r of a by k
BigDiv(a, k) == WithoutZeros(DivDigits(a, k, 0))

\* a < b, neither having leading zeros or both having the same length
BigLess(a, b) ==
    \/ Len(a) < Len(b)
    \/ /\ Len(a) = Len(b)
       /\ \E i \in 1..Len(a) : a[i] < b[i] /\ \A j \in 1..(i - 1) : a[j] = b[j]

\* about half of n, in steps of 27, for n > 27
HalfOf(n) == 27 * (((n \div 27) + 1) \div 2)

\* a * 2^n, in two parts when 2^n is above 2^27
RECURSIVE ShiftLeft(_, _)
ShiftLeft(a, n) ==
    IF a = <<>> \/ n = 0 THEN a
    ELSE IF n > 27 THEN ShiftLeft(ShiftLeft(a, HalfOf(n)), n - HalfOf(n))
    ELSE BigMul(a, 2^n)

\* floor(a / 2^n), in two parts when 2^n is above 2^27, and sticky: whether
\* the division, or one before it, left a remainder
RECURSIVE ShiftRight(_, _, _)
ShiftRightLow(s, n) == ShiftRight(s.q, n, s.sticky)
ShiftRightOnce(d, sticky) == [q |-> d.q, sticky |-> sticky \/ d.r # 0]
ShiftRight(a, n, sticky) ==
    IF a = <<>> \/ n = 0 THEN [q |-> a, sticky |-> sticky]
    ELSE IF n > 27 THEN ShiftRightLow(ShiftRight(a, HalfOf(n), sticky), n - HalfOf(n))
    ELSE ShiftRightOnce(BigDiv(a, 2^n), sticky)

\* a followed by zeros up to the length n >= Len(a): a * 10^(n - Len(a))
PadTo(a, n) == a \o [i \in 1..(n - Len(a)) |-> 0]

\* floor(a / 10^k) and whether it left a remainder
DivPow10(a, k) ==
    [q |-> SubSeq(a, 1, Len(a) - k),
     sticky |-> \E i \in 1..Len(a) : i > Len(a) - k /\ a[i] # 0]

\* d holds the quotient and the remainder by 2 of the floor of twice a
\* value, sticky telling whether that floor dropped something: the value
\* rounded to the nearest integer, ties to the even one
RoundHalfEven(d, sticky) ==
    IF d.r = 1 /\ (sticky \/ (d.q # <<>> /\ (d.q[Len(d.q)] % 2) = 1))
    THEN WithCarry(MulDigits(d.q, 1, 1)) ELSE d.q

Positive(n) == IF n > 0 THEN n ELSE 0

\* floor(D * 10^e * 2^t) and whether it dropped something
ScaledFloorOf(d10, t) == ShiftRight(d10.q, Positive(0 - t), d10.sticky)
ScaledFloor(D, e, t) ==
    ScaledFloorOf(DivPow10(ShiftLeft(PadTo(D, Len(D) + Positive(e)), Positive(t)),
                           Positive(0 - e)),
                  t)

\* s.q halved until it is below 2^54, h counting the halvings
RECURSIVE Reduce(_, _)
RECURSIVE ReduceStep(_, _, _)
ReduceStep(d, sticky, h) == Reduce([q |-> d.q, sticky |-> sticky \/ d.r # 0], h)
Reduce(s, h) ==
    IF BigLess(s.q, ShiftLeft(<<1>>, 54)) THEN [q |-> s.q, sticky |-> s.sticky, h |-> h]
    ELSE ReduceStep(BigDiv(s.q, 2), s.sticky, h + 1)

\* a lower bound of floor(log2(10^k))
Log2Lower(k) ==
    IF k >= 0 THEN (k * 3321) \div 1000 ELSE 0 - (((0 - k) * 3322 + 999) \div 1000)

\* s.q is the floor of twice a value and s.sticky tells whether it dropped
\* something: the value rounded to the nearest integer, ties to even
RoundShifted(s) == RoundHalfEven(BigDiv(s.q, 2), s.sticky)

\* r.q is floor(v * 2^(t - r.h)), between 2^53 and 2^54: the double nearest
\* to v is m * 2^q, m being v * 2^(t - r.h - 1) rounded, ties to even
DoubleOf(r, t) == [m |-> RoundShifted(r), q |-> r.h - t + 1]

\* the double nearest to v = D * 10^e, for 10^-3 <= v below the overflow
\* threshold, as its significand m and its binary exponent q; v is scaled
\* by 2^t, t making it at least 2^54
NearestDouble(D, e) ==
    DoubleOf(Reduce(ScaledFloor(D, e, 54 - Log2Lower(Len(D) + e - 1)), 0),
             54 - Log2Lower(Len(D) + e - 1))

\* 100 * x rounded to the nearest integer, ties to even, x the double
\* x.m * 2^x.q
RoundedHundredths(x) ==
    IF x.q >= 0 THEN ShiftLeft(BigMul(x.m, 100), x.q)
    ELSE RoundShifted(ShiftRight(BigMul(x.m, 100), (0 - x.q) - 1, FALSE))

\* the digits of 2^1024 - 2^970, halfway between the largest double and
\* 2^1024
OverflowDigits == ShiftLeft(ValuesOf(NatToStr(18014398) \o NatToStr(509481983)), 970)

\* the digits m, d of them, at exponent e
TooBig(m, d, e) ==
    \/ e + d > 309
    \/ /\ e + d = 309
       /\ ~BigLess(PadTo(ValuesOf(m), Positive(d - 309) + 309),
                   PadTo(OverflowDigits, Positive(d - 309) + 309))

\* m * 10^e is at least halfway from the largest double
\* (1.7976931348623157e308) to 2^1024: float() gives inf
Overflows(m, e) == TooBig(m, Len(m), e)

\* the value of the k-th digit of s from the right, 0 when s is shorter
DigitAt(s, k) == IF k <= Len(s) THEN DigitVal(s[Len(s) + 1 - k]) * 10^(k - 1) ELSE 0

\* the value of the last nine digits of s
LastNine(s) ==
    DigitAt(s, 1) + DigitAt(s, 2) + DigitAt(s, 3) + DigitAt(s, 4) + DigitAt(s, 5)
        + DigitAt(s, 6) + DigitAt(s, 7) + DigitAt(s, 8) + DigitAt(s, 9)

\* the value of the digits of the exponent of a literal, 10^9 standing for
\* all above: an exponent this far decides the value alone
CappedInt(s) == IF Len(DropLeadingZeros(s)) > 9 THEN 1000000000 ELSE LastNine(s)

\* the value of the exponent part
ExponentOf(p) ==
    IF p.hasexp
    THEN (IF Head(p.expo) = "-" THEN -1 ELSE 1) * CappedInt(DigitsOf(Unsigned(p.expo)))
    ELSE 0

Finite(neg, v) == IF v.m # <<"0">> /\ Overflows(v.m, v.e) THEN Inf(neg) ELSE v

DecimalOf(neg, p) ==
    Finite(neg, DecimalValue(neg, DigitsOf(p.ip) \o DigitsOf(p.fp),
                             ExponentOf(p) - Len(DigitsOf(p.fp))))

ParseUnsigned(neg, u) ==
    IF IsInfWord(u) THEN Inf(neg)
    ELSE IF IsNanWord(u) THEN NaN
    ELSE DecimalOf(neg, FloatParts(u))

ParseStripped(t) == ParseUnsigned(t # <<>> /\ Head(t) = "-", Unsigned(t))

\* float(s) for a literal s
ParseFloat(s) == ParseStripped(FloatStrip(s))

\* round(x, 2): the double nearest to x.m * 10^x.e is rounded to hundredths
\* as the binary number it is; below 10^-3 the result is 0
Round2(x) ==
    IF x.t # "float" \/ x.m = <<"0">> THEN x
    ELSE IF Len(x.m) + x.e < -2 THEN Dec(x.neg, <<"0">>, 0)
    ELSE DecimalValue(x.neg, CharsOf(RoundedHundredths(NearestDouble(ValuesOf(x.m), x.e))), -2)

NoFloat == [t |-> "None"]   \* safe_float returning None

\* lines 67-71
FloatOrNone(cleaned) ==
    IF IsFloatLiteral(cleaned) THEN Round2(ParseFloat(cleaned)) ELSE NoFloat

\* lines 65-68, for the stripped text of the value
FloatOfStripped(stripped) ==
    IF stripped = <<>> THEN NoFloat ELSE FloatOrNone(RemoveCommas(stripped))

\* lines 62-71
safe_float(value) ==
    IF value = PyNone THEN NoFloat ELSE FloatOfStripped(Strip(PyStr(value)))

----------------------------------------------------------------------------
(* Raw items and canonical records.                                        *)

\* a raw item that is not a mapping (item.get raises AttributeError)
NonMapping == [t |-> "nonmap"]

ItemWithGroup(cls, cd, nm, cal, grp) ==
    [t |-> "map", DB_CLASS_CM |-> cls, FOOD_CD |-> cd, FOOD_NM_KR |-> nm,
     AMT_NUM1 |-> cal, FOOD_CAT1_NM |-> grp]

\* an item without a FOOD_CAT1_NM
Item(cls, cd, nm, cal) == ItemWithGroup(cls, cd, nm, cal, PyNone)

NoFood == [t |-> "None"]    \* parse_food_item returning None
Raises == [t |-> "raise"]   \* parse_food_item raising AttributeError

\* `x.strip() or None`
StripOrNone(s) == IF Strip(s) = <<>> THEN PyNone ELSE Str(Strip(s))

\* lines 80-127; of the optional fields of the record only groupName, the
\* one whose computation can raise, is kept
MakeFood(it, food_cd, food_nm, calories) ==
    IF food_cd = <<>> \/ food_nm = <<>> THEN NoFood
    ELSE IF calories = NoFloat THEN NoFood
    ELSE IF StripRaises(it.FOOD_CAT1_NM) THEN Raises
    ELSE [t |-> "food", foodCd |-> Str(food_cd), name |-> Str(food_nm),
          calories |-> calories,
          groupName |-> StripOrNone(OrEmpty(it.FOOD_CAT1_NM))]

\* lines 74-127
parse_food_item(it) ==
    IF StripRaises(it.FOOD_CD) \/ StripRaises(it.FOOD_NM_KR) THEN Raises
    ELSE MakeFood(it, Strip(OrEmpty(it.FOOD_CD)), Strip(OrEmpty(it.FOOD_NM_KR)),
                  safe_float(it.AMT_NUM1))

Representative == Str(<<"0", "1">>)

\* the raw items handed to parse_food_item on its own: absent, empty, blank,
\* plain, padded and non-str codes and names; absent, blank, malformed,
\* well-formed, signed, exponent, non-finite, tie, long and integer calories;
\* absent, plain and non-str groups
RawCodes ==
    { PyNone, Str(<<>>), Str(<<" ">>), Str(<<"\t">>), Str(<<"A">>),
      Str(<<" ", "A", " ">>), Str(<<"\n", "A", "\r">>), PyInt(0), PyInt(7) }
RawNames == {PyNone, Str(<<" ", " ">>), Str(<<"\n", FS>>), Str(<<"x">>), PyInt(7)}
RawCalories ==
    { PyNone, Str(<<>>), Str(<<" ">>), Str(<<"a", "b", "c">>), Str(<<".">>),
      Str(<<"1", ".", "2", ".", "3">>), Str(<<"5", " ", "2">>),
      Str(<<"5", "2">>), Str(<<" ", "5", "2", " ">>),
      Str(<<"1", ",", "2", "3", "4", ".", "5">>),
      Str(<<"3", ".", "1", "4", "1", "5", "9">>),
      Str(<<"-", "5">>), Str(<<"+", ".", "5">>), Str(<<"-">>),
      Str(<<"1", "e", "3">>), Str(<<"1", "E", "-", "3">>), Str(<<"1", "e">>),
      Str(<<"5", " ", ",">>), Str(<<"5", FS, ",">>), Str(<<"\t", "5", "2", "\n">>),
      Str(<<"1", "_", "0">>), Str(<<"1", "_", "_", "0">>),
      Str(<<"n", "a", "n">>), Str(<<"-", "I", "n", "f">>), Str(<<"1", "e", "3", "0", "9">>),
      Str(<<"0", ".", "1", "2", "5">>), Str(<<"2", ".", "6", "7", "5">>),
      Str(<<"1", ".", "0", "0", "5">>), Str(<<"-", "0", ".", "0", "0", "4">>),
      Str(<<"3", ".", "1", "4", "1", "5", "9", "2", "6", "5", "3", "5", "8", "9", "7">>),
      Str(<<"0", ".", "3", "0", "0", "0", "0", "0", "0", "0", "0", "0", "0", "0", "0",
            "0", "0", "0", "0", "4">>),
      Str(<<"2", "1", "4", "7", "4", "8", "3", "6", ".", "4", "7", "5">>),
      Str(<<"9", "0", "0", "7", "1", "9", "9", "2", "5", "4", "7", "4", "0", "9", "9", "3">>),
      PyInt(52), PyInt(0), PyBigInt(FALSE, <<"2", "1", "4", "7", "4", "8", "3", "6", "4", "8">>) }
RawGroups == {PyNone, Str(<<" ", "g">>), PyInt(7)}
RawItems == {ItemWithGroup(Representative, cd, nm, cal, grp) :
                 cd \in RawCodes, nm \in RawNames, cal \in RawCalories, grp \in RawGroups}

ItemA == Item(Representative, Str(<<"A">>), Str(<<"x">>), Str(<<"5", "2">>))
ItemB == Item(Representative, Str(<<" ", "B", " ">>), Str(<<"x">>),
              Str(<<"1", ",", "2", "3", "4", ".", "5">>))
ItemVariant == Item(Str(<<"0", "2">>), Str(<<"A">>), Str(<<"y">>), Str(<<"5", "2">>))
ItemNoCal == Item(Representative, Str(<<"B">>), Str(<<"x">>), Str(<<"a", "b", "c">>))
ItemBadName == Item(Representative, Str(<<"B">>), PyInt(7), Str(<<"5", "2">>))

\* a list as the value of body["items"]
List(v) == [t |-> "list", v |-> v]

\* the values of body["items"] the remote API answers with: lists (empty, of
\* kept, skipped, dropped and malformed items), a single mapping, and a value
\* that is neither a list nor a mapping
ItemsValues ==
    { List(<<>>), PyNone, ItemA,
      List(<<ItemB>>), List(<<ItemVariant>>), List(<<ItemNoCal>>),
      List(<<ItemVariant, NonMapping>>), List(<<ItemA, ItemBadName>>) }

NoneCount == -1     \* total_count = None

\* body["totalCount"]: null, or an integer: no record at all, or as many as
\* the pages of the window can hold
TotalCounts == {NoneCount, 0, MaxPage}

Bodies == [totalCount : TotalCounts, items : ItemsValues]

----------------------------------------------------------------------------
(* download_all_foods                                                      *)

max_retries == 3
RATE_LIMIT_DELAY == 2

\* lines 180-184
NormalizeItems(items) ==
    IF items.t = "list" THEN items.v
    ELSE IF items.t = "map" THEN <<items>>
    ELSE <<>>

\* the mappings among the items of the pages the remote API answers with
PageItems ==
    {it \in UNION {{NormalizeItems(v)[i] : i \in 1..Len(NormalizeItems(v))} : v \in ItemsValues} :
         it.t = "map"}

\* parse_food_item on these items, computed once
Parsed == [it \in PageItems |-> parse_food_item(it)]

\* line 195: parse_food_item(item)
ParseOf(it) == IF it \in PageItems THEN Parsed[it] ELSE parse_food_item(it)

\* lines 188-197: the loop over the items of one page, from index i on.
\* raised is TRUE when item.get fails on a non-mapping item or
\* parse_food_item raises; the counters keep what the loop did before the
\* failure.
RECURSIVE ProcessFrom(_, _, _, _, _)
RECURSIVE ProcessParsed(_, _, _, _, _, _)

\* lines 195-197 for item i, food being the outcome of parse_food_item
ProcessParsed(items, i, inc_all, page_foods, skipped, food) ==
    IF food = Raises
    THEN [raised |-> TRUE, page_foods |-> page_foods, skipped |-> skipped]
    ELSE ProcessFrom(items, i + 1, inc_all,
                     IF food # NoFood THEN Append(page_foods, food) ELSE page_foods,
                     skipped)

ProcessFrom(items, i, inc_all, page_foods, skipped) ==
    IF i > Len(items)
    THEN [raised |-> FALSE, page_foods |-> page_foods, skipped |-> skipped]
    ELSE IF items[i].t # "map"
    THEN [raised |-> TRUE, page_foods |-> page_foods, skipped |-> skipped]
    ELSE IF ~inc_all /\ items[i].DB_CLASS_CM # Representative
    THEN ProcessFrom(items, i + 1, inc_all, page_foods, skipped + 1)
    ELSE ProcessParsed(items, i, inc_all, page_foods, skipped, ParseOf(items[i]))

\* lines 188-197 with the test of line 191 never taken
ProcessItems_no_filter(items, inc_all) == ProcessFrom(items, 1, TRUE, <<>>, 0)

ProcessItems(items, inc_all) == ProcessFrom(items, 1, inc_all, <<>>, 0)

\* line 205 without `not items`
ShouldStop_total_only(items, fetched, total) == fetched >= total

\* line 205 with > for >=
ShouldStop_strict(items, fetched, total) == items = <<>> \/ fetched > total

\* line 205, evaluated on values for which it does not raise
ShouldStop(items, fetched, total) == items = <<>> \/ fetched >= total

\* line 205 raises TypeError: `not items` is false and total_count is None
CheckRaises(items, total) == items # <<>> /\ total = NoneCount

\* line 166 left out
RateLimitRetry_unchanged(rc) == rc

\* line 166
RateLimitRetry(rc) == rc + 1

\* line 170
ApiErrorRetry(rc) == rc + 1

\* line 223
NextPage(p) == p + 1

\* line 150 is reached; the run is followed through the pages 1..MaxPage
Fetching == state = "FETCHING" /\ page_no <= MaxPage

\* line 186 counting only the items that become records
CountFetched_records_only(fc, items) ==
    fc + Len(SelectSeq(items, LAMBDA it :
                        it.t = "map" /\ parse_food_item(it) \notin {NoFood, Raises}))

\* line 186
CountFetched(fc, items) == fc + Len(items)

\* the observation of the attempt being made: fetch_page is called for page_no
Attempt(outcome, rc, items) ==
    [page |-> page_no, outcome |-> outcome, retry |-> rc,
     items |-> Len(items), raw |-> items,
     attempt |-> IF last.page = page_no THEN last.attempt + 1 ELSE 1,
     limited |-> (IF last.page = page_no THEN last.limited ELSE 0)
                     + (IF outcome = "22" THEN 1 ELSE 0),
     refused_only |-> last.refused_only /\ outcome \in {"22", "other"}]

\* lines 223-224 without the reset of line 147
Advance_no_reset(sl) ==
    /\ page_no' = NextPage(page_no)
    /\ retry_count' = retry_count
    /\ slept' = sl \o <<RATE_LIMIT_DELAY>>
    /\ page_start' = all_foods'
    /\ count_start' = <<fetched_count', skipped_count'>>
    /\ state' = state

\* lines 223-224 and 147: the inner loop is left, the next page is entered
Advance(sl) ==
    /\ page_no' = NextPage(page_no)
    /\ retry_count' = 0
    /\ slept' = sl \o <<RATE_LIMIT_DELAY>>
    /\ page_start' = all_foods'
    /\ count_start' = <<fetched_count', skipped_count'>>
    /\ state' = state

\* `continue` at lines 167 / 172 followed by the loop test of line 150
Continue(rc, sl) ==
    IF rc < max_retries
    THEN /\ retry_count' = rc
         /\ slept' = sl
         /\ UNCHANGED <<state, page_no, page_start, count_start>>
    ELSE Advance(sl)

\* lines 213-221
HandleException(rc) ==
    IF rc < max_retries
    THEN /\ retry_count' = rc
         /\ slept' = <<50 * rc>>
         /\ UNCHANGED <<state, page_no, page_start, count_start>>
    ELSE /\ retry_count' = rc
         /\ slept' = <<>>
         /\ state' = "ABORTED"
         /\ UNCHANGED <<page_no, page_start, count_start>>

\* fetch_page raises (HTTPError, URLError, XML body, bad JSON), or the
\* response has no usable header / body: lines 153-156, 174
FetchFails ==
    /\ Fetching
    /\ last' = Attempt("exception", retry_count + 1, <<>>)
    /\ HandleException(retry_count + 1)
    /\ UNCHANGED <<include_all, all_foods, total_count, fetched_count, skipped_count>>
    /\ UNCHANGED ddvars
    /\ UNCHANGED mvars
    /\ UNCHANGED pvars

\* lines 160-162
Answer03 ==
    /\ Fetching
    /\ last' = Attempt("03", retry_count, <<>>)
    /\ state' = "DONE"
    /\ slept' = <<>>
    /\ UNCHANGED <<include_all, all_foods, page_no, total_count, fetched_count,
                   skipped_count, retry_count, page_start, count_start>>
    /\ UNCHANGED ddvars
    /\ UNCHANGED mvars
    /\ UNCHANGED pvars

\* lines 163-167
Answer22 ==
    /\ Fetching
    /\ last' = Attempt("22", RateLimitRetry(retry_count), <<>>)
    /\ UNCHANGED <<include_all, all_foods, total_count, fetched_count, skipped_count>>
    /\ Continue(RateLimitRetry(retry_count), <<600>>)
    /\ UNCHANGED ddvars
    /\ UNCHANGED mvars
    /\ UNCHANGED pvars

\* lines 168-172
AnswerOther ==
    /\ Fetching
    /\ last' = Attempt("other", ApiErrorRetry(retry_count), <<>>)
    /\ UNCHANGED <<include_all, all_foods, total_count, fetched_count, skipped_count>>
    /\ Continue(ApiErrorRetry(retry_count), <<50>>)
    /\ UNCHANGED ddvars
    /\ UNCHANGED mvars
    /\ UNCHANGED pvars

\* lines 174-211 for a status-"00" response with the given body
Answer00(body) ==
    LET total == IF total_count = NoneCount THEN body.totalCount ELSE total_count
        items == NormalizeItems(body.items)
        fetched == CountFetched(fetched_count, items)
        res == ProcessItems(items, include_all)
        raised == res.raised \/ CheckRaises(items, total)
    IN  /\ Fetching
        /\ total_count' = total
        /\ fetched_count' = fetched
        /\ skipped_count' = skipped_count + res.skipped
        /\ all_foods' = IF res.raised THEN all_foods ELSE all_foods \o res.page_foods
        /\ IF raised
           THEN /\ last' = Attempt("00-exception", retry_count + 1, items)
                /\ HandleException(retry_count + 1)
           ELSE /\ last' = Attempt("00", retry_count, items)
                /\ IF ShouldStop(items, fetched, total)
                   THEN /\ state' = "DONE"
                        /\ slept' = <<>>
                        /\ UNCHANGED <<page_no, retry_count, page_start, count_start>>
                   ELSE Advance(<<>>)
        /\ UNCHANGED include_all
        /\ UNCHANGED ddvars
        /\ UNCHANGED mvars
        /\ UNCHANGED pvars

Process00 == \E body \in Bodies : Answer00(body)

----------------------------------------------------------------------------
(* deduplicate_foods                                                       *)

\* lines 234-238: the loop from index i on
RECURSIVE DedupFrom(_, _, _, _)
DedupFrom(fs, i, seen, uniq) ==
    IF i > Len(fs) THEN uniq
    ELSE IF Truthy(fs[i].foodCd) /\ fs[i].foodCd \notin seen
    THEN DedupFrom(fs, i + 1, seen \cup {fs[i].foodCd}, Append(uniq, fs[i]))
    ELSE DedupFrom(fs, i + 1, seen, uniq)

\* lines 234-238 with unique.insert(0, food) in place of unique.append(food)
RECURSIVE DedupPrepend(_, _, _, _)
DedupPrepend(fs, i, seen, uniq) ==
    IF i > Len(fs) THEN uniq
    ELSE IF Truthy(fs[i].foodCd) /\ fs[i].foodCd \notin seen
    THEN DedupPrepend(fs, i + 1, seen \cup {fs[i].foodCd}, <<fs[i]>> \o uniq)
    ELSE DedupPrepend(fs, i + 1, seen, uniq)

deduplicate_foods_prepend(fs) == DedupPrepend(fs, 1, {}, <<>>)

\* lines 234-238 without seen.add(food_cd)
deduplicate_foods_no_seen(fs) == SelectSeq(fs, LAMBDA f : Truthy(f.foodCd))

deduplicate_foods(fs) == DedupFrom(fs, 1, {}, <<>>)

\* the records handed to deduplicate_foods: food.get("foodCd") is None
\* (absent key), "" or a code; the name tells records of one code apart
FoodCds == {PyNone, Str(<<>>), Str(<<"A">>), Str(<<"B">>)}
FoodNames == {Str(<<"x">>), Str(<<"y">>)}
FoodRecords == {[t |-> "food", foodCd |-> cd, name |-> nm, calories |-> Dec(FALSE, <<"5", "2">>, 0), groupName |-> PyNone] :
                    cd \in FoodCds, nm \in FoodNames}

FoodLists == UNION {[1..n -> FoodRecords] : n \in 0..MaxLen}

DedupeOnce ==
    /\ dpc = "start"
    /\ unique' = deduplicate_foods(foods)
    /\ dpc' = "once"
    /\ UNCHANGED <<foods, again>>
    /\ UNCHANGED dlvars
    /\ UNCHANGED mvars
    /\ UNCHANGED pvars

DedupeTwice ==
    /\ dpc = "once"
    /\ again' = deduplicate_foods(unique)
    /\ dpc' = "twice"
    /\ UNCHANGED <<foods, unique>>
    /\ UNCHANGED dlvars
    /\ UNCHANGED mvars
    /\ UNCHANGED pvars

\* lines 195-199 for one raw item
ParseItem ==
    /\ ppc = "start"
    /\ parsed' = parse_food_item(item)
    /\ all_foods' = IF parsed' \notin {NoFood, Raises}
                    THEN Append(all_foods, parsed') ELSE all_foods
    /\ ppc' = IF parsed' = Raises THEN "raised" ELSE "parsed"
    /\ UNCHANGED <<state, include_all, page_no, total_count, fetched_count, skipped_count,
                   retry_count, last, slept, page_start, count_start, item>>
    /\ UNCHANGED ddvars
    /\ UNCHANGED mvars

----------------------------------------------------------------------------
(* main, from the return of download_all_foods on                          *)

NoOutput == [t |-> "None"]      \* nothing was written

\* lines 281-286; generatedAt is the wall clock and is left out
OutputData(fs) == [t |-> "payload", version |-> 1, totalCount |-> Len(fs), foods |-> fs]

\* line 272 with the test missing
NoFoods_never(fs) == FALSE

\* line 272: `not foods`
NoFoods(fs) == fs = <<>>

\* download_all_foods has returned all_foods
Returned == state \in {"DONE", "ABORTED"}

\* lines 270-289
MainFinish ==
    /\ Returned
    /\ mpc = "download"
    /\ IF NoFoods(all_foods)
       THEN /\ mpc' = "exit1"
            /\ output_data' = NoOutput
       ELSE /\ mpc' = "saved"
            /\ output_data' = OutputData(deduplicate_foods(all_foods))
    /\ UNCHANGED dlvars
    /\ UNCHANGED ddvars
    /\ UNCHANGED pvars

----------------------------------------------------------------------------
(* Specifications                                                          *)

DownloadStart ==
    /\ all_foods = <<>>
    /\ page_no = 1
    /\ total_count = NoneCount
    /\ fetched_count = 0
    /\ skipped_count = 0
    /\ retry_count = 0
    /\ last = [page |-> 0, outcome |-> "none", retry |-> 0, items |-> 0, raw |-> <<>>,
               attempt |-> 0, limited |-> 0, refused_only |-> TRUE]
    /\ slept = <<>>
    /\ page_start = <<>>
    /\ count_start = <<0, 0>>

Called ==
    /\ state = "FETCHING"
    /\ include_all \in BOOLEAN
    /\ DownloadStart
    /\ foods = <<>>
    /\ unique = <<>>
    /\ again = <<>>
    /\ dpc = "idle"
    /\ mpc = "download"
    /\ output_data = NoOutput
    /\ item = NonMapping
    /\ parsed = NoFood
    /\ ppc = "idle"

\* a call of download_all_foods, followed through the pages 1..MaxPage
Init == Called

Next == FetchFails \/ Answer03 \/ Answer22 \/ AnswerOther \/ Process00 \/ MainFinish

Spec == Init /\ [][Next]_vars

\* a call of deduplicate_foods on an arbitrary list; nothing is downloaded
DedupInit ==
    /\ state = "IDLE"
    /\ include_all = FALSE
    /\ DownloadStart
    /\ foods \in FoodLists
    /\ unique = <<>>
    /\ again = <<>>
    /\ dpc = "start"
    /\ mpc = "idle"
    /\ output_data = NoOutput
    /\ item = NonMapping
    /\ parsed = NoFood
    /\ ppc = "idle"

DedupNext == DedupeOnce \/ DedupeTwice

DedupSpec == DedupInit /\ [][DedupNext]_vars

\* a call of parse_food_item on an arbitrary raw item, its result appended as
\* the page loop does; nothing is downloaded
ParseInit ==
    /\ state = "IDLE"
    /\ include_all = FALSE
    /\ DownloadStart
    /\ foods = <<>>
    /\ unique = <<>>
    /\ again = <<>>
    /\ dpc = "idle"
    /\ mpc = "idle"
    /\ output_data = NoOutput
    /\ item \in RawItems
    /\ parsed = NoFood
    /\ ppc = "start"

ParseNext == ParseItem

ParseSpec == ParseInit /\ [][ParseNext]_vars

TypeOK ==
    /\ state \in {"FETCHING", "DONE", "ABORTED", "IDLE"}
    /\ page_no \in 1..(MaxPage + 1)
    /\ retry_count \in 0..max_retries
    /\ total_count \in TotalCounts
    /\ fetched_count >= 0
    /\ skipped_count >= 0
    /\ last.attempt \in 0..max_retries

----------------------------------------------------------------------------
(* Properties of download_all_foods, checked under Spec                    *)

Terminal == state \in {"DONE", "ABORTED"}
Failed(a) == a.outcome \in {"exception", "00-exception", "22", "other"}
Raised(a) == a.outcome \in {"exception", "00-exception"}

\* C1: when the attempts of a page are used up by a response whose result
\* code is neither "00", "03" nor "22", the run is ABORTED (it has returned
\* and fetches nothing more).
C1_ApiErrorExhaustionAborts ==
    (last.outcome = "other" /\ last.retry >= max_retries) => state = "ABORTED"

\* C2: after a status-"22" answer to page p the controller has waited 60
\* seconds and the page it fetches next is again p.
C2_RateLimitRetriesSamePage ==
    last.outcome = "22" =>
        /\ slept # <<>> /\ slept[1] = 600
        /\ state = "FETCHING"
        /\ page_no = last.page


\* C4: no page is fetched more than max_retries times: every failed attempt
\* (exception, "22", other code) takes one position of the page's retry
\* counter, and the fetched page numbers never go back.
C4_AtMostThreeFetchesPerPage ==
    [][ /\ last'.attempt <= max_retries
        /\ (Failed(last') => last'.retry = last'.attempt)
        /\ last'.page >= last.page
        /\ page_no' >= last'.page ]_vars

C4_Witness ==
    /\ last.page >= 2
    /\ last.attempt = max_retries
    /\ last.outcome = "22"

\* C5: when an attempt on page p raises and brings the retry counter to
\* max_retries, the run is ABORTED and returns exactly the records
\* accumulated from the pages before p.
C5_ExhaustionReturnsPriorPages ==
    (Raised(last) /\ last.retry >= max_retries) =>
        (state = "ABORTED" /\ all_foods = page_start)

\* C6: a status-"03" answer ends the run in DONE at once: the returned list
\* is the list accumulated from the earlier pages, and no counter changes.
C6_NoMoreDataReturnsPriorPages ==
    [][ last'.outcome = "03" =>
            /\ state' = "DONE"
            /\ all_foods' = page_start
            /\ UNCHANGED <<all_foods, fetched_count, skipped_count, retry_count,
                           total_count, page_no>> ]_vars

\* C7: a status-"00" page without raw items ends the run in DONE with the
\* accumulated records as they were, also when fetched_count is below
\* total_count.
C7_EmptyPageEndsRun ==
    [][ (last'.outcome \in {"00", "00-exception"} /\ last'.items = 0) =>
            /\ last'.outcome = "00"
            /\ state' = "DONE"
            /\ all_foods' = all_foods ]_vars

C7_Witness ==
    /\ state = "DONE"
    /\ last.outcome = "00"
    /\ last.items = 0
    /\ total_count # NoneCount
    /\ fetched_count < total_count
    /\ all_foods # <<>>

\* C8: after a status-"00" page was processed (no failure was raised), the
\* run is DONE exactly when the page had no raw item or fetched_count has
\* reached total_count; otherwise the page fetched next is the current page
\* plus one.  The fetched page numbers start at 1 and never decrease.
C8_StopOrNextPage ==
    [][ /\ last'.outcome = "00" =>
            /\ (state' = "DONE") <=>
                   \/ last'.items = 0
                   \/ (total_count' # NoneCount /\ fetched_count' >= total_count')
            /\ state' # "DONE" =>
                   (state' = "FETCHING" /\ page_no' = last'.page + 1 /\ retry_count' = 0)
        /\ last'.page >= last.page
        /\ (last.page = 0 => last'.page = 1) ]_vars

C8_Witness ==
    /\ last.outcome = "00"
    /\ last.items > 0
    /\ state = "FETCHING"
    /\ page_no = last.page + 1
    /\ fetched_count < total_count

----------------------------------------------------------------------------
(* Properties of deduplicate_foods, checked under DedupSpec                *)

\* index of the first record of fs that carries the code cd
FirstIndex(fs, cd) ==
    CHOOSE i \in 1..Len(fs) : fs[i].foodCd = cd /\ \A j \in 1..(i - 1) : fs[j].foodCd # cd

\* C9: the result holds each distinct (non-empty) foodCd of the input exactly
\* once, as the first input record that carries it, in the order of first
\* appearance; a record without foodCd, or with an empty one, is never kept.
C9_DedupKeepsFirstOfEachCode ==
    dpc \in {"once", "twice"} =>
        /\ \A i \in 1..Len(foods) :
               Truthy(foods[i].foodCd) =>
                   Cardinality({j \in 1..Len(unique) :
                                    unique[j].foodCd = foods[i].foodCd}) = 1
        /\ \A j \in 1..Len(unique) :
               /\ Truthy(unique[j].foodCd)
               /\ \E i \in 1..Len(foods) : foods[i].foodCd = unique[j].foodCd
               /\ unique[j] = foods[FirstIndex(foods, unique[j].foodCd)]
        /\ \A j, k \in 1..Len(unique) :
               j < k => FirstIndex(foods, unique[j].foodCd)
                            < FirstIndex(foods, unique[k].foodCd)

C9_Witness ==
    /\ dpc = "once"
    /\ Len(unique) = 1
    /\ \E i, j, k \in 1..Len(foods) :
           /\ i < j
           /\ foods[i].foodCd = foods[j].foodCd
           /\ foods[i] # foods[j]
           /\ Truthy(foods[i].foodCd)
           /\ ~Truthy(foods[k].foodCd)

\* C10: deduplicate_foods(deduplicate_foods(x)) = deduplicate_foods(x).
C10_DedupIdempotent == dpc = "twice" => again = unique

C10_Witness ==
    /\ dpc = "twice"
    /\ Len(unique) >= 2
    /\ Len(foods) > Len(unique)

----------------------------------------------------------------------------
(* Properties of main and of the item loop, checked under Spec             *)

\* the step is a fetch attempt
Attempted == last' # last

\* the response was a status-"00" body, processed or failed in processing
Answered00(a) == a.outcome \in {"00", "00-exception"}

\* C11: whenever main produces a payload (download DONE or ABORTED), its
\* foods list holds each foodCd at most once and totalCount is its length.
C11_PayloadCodesUnique ==
    mpc = "saved" =>
        /\ \A i, j \in 1..Len(output_data.foods) :
               i # j => output_data.foods[i].foodCd # output_data.foods[j].foodCd
        /\ output_data.totalCount = Len(output_data.foods)

C11_Witness ==
    /\ mpc = "saved"
    /\ state = "ABORTED"
    /\ Len(output_data.foods) >= 2
    /\ Len(output_data.foods) < Len(all_foods)

IsRepresentative(it) == it.DB_CLASS_CM = Representative

\* every item is a mapping that parse_food_item accepts or drops
AllMappings(items) ==
    \A i \in 1..Len(items) : items[i].t = "map" /\ ParseOf(items[i]) # Raises

\* the records of the items that pass the filter and the normalizer, in order
KeptOf(items, filtering) ==
    LET pass == SelectSeq(items, LAMBDA it :
                    /\ (filtering => IsRepresentative(it))
                    /\ ParseOf(it) # NoFood)
    IN  [i \in 1..Len(pass) |-> ParseOf(pass[i])]

\* C12: with include_all false every raw item of a page whose DB_CLASS_CM is
\* not "01" adds one to skipped_count and contributes no record, also when it
\* normalizes; with include_all true skipped_count stays 0 and the class
\* drops nothing.
C12_ClassificationFilter ==
    [][ (Attempted /\ Answered00(last') /\ AllMappings(last'.raw)) =>
            LET raw == last'.raw
                variants == {i \in 1..Len(raw) : ~IsRepresentative(raw[i])}
            IN  /\ skipped_count' = skipped_count
                                        + (IF include_all THEN 0 ELSE Cardinality(variants))
                /\ all_foods' = all_foods \o KeptOf(raw, ~include_all)
                /\ include_all => skipped_count' = 0
                /\ ~include_all =>
                       \A i \in variants, k \in 1..Len(all_foods') :
                           all_foods'[k] # ParseOf(raw[i]) ]_vars

C12_Witness ==
    /\ ~include_all
    /\ last.outcome = "00"
    /\ \E i \in 1..Len(last.raw) :
           /\ ~IsRepresentative(last.raw[i])
           /\ ParseOf(last.raw[i]) # NoFood
    /\ skipped_count >= 1
    /\ all_foods # <<>>

\* C14: main fails hard (exit 1, no payload) exactly when download_all_foods
\* returned no record; the download always returns (DONE or ABORTED) and an
\* ABORTED run with a record still produces the payload.
C14_HardFailureIffNoRecords ==
    /\ state \in {"FETCHING", "DONE", "ABORTED"}
    /\ (Failed(last) /\ state # "FETCHING") => state = "ABORTED"
    /\ mpc # "download" =>
           /\ Returned
           /\ (mpc = "exit1") <=> (all_foods = <<>>)
           /\ (mpc = "exit1") <=> (output_data = NoOutput)
           /\ (mpc = "saved") <=> (all_foods # <<>>)

C14_Witness ==
    /\ state = "ABORTED"
    /\ mpc = "saved"
    /\ output_data.foods # <<>>

----------------------------------------------------------------------------
(* Properties of the retry counter and of the accounting, under Spec       *)

\* C15: a status-"22" answer does not take a position of the retry counter,
\* so the wait after a raised attempt is 5 s times the number of attempts on
\* the page that were not rate-limit answers, whether or not "22" answers
\* came before it.
C15_RateLimitNotCountedInBackoff ==
    (Raised(last) /\ last.retry < max_retries) =>
        slept = <<50 * (last.attempt - last.limited)>>

\* C16: a raised attempt on page p whose incremented retry counter r is below
\* max_retries is followed by a wait of exactly 5 r seconds and a new fetch
\* of p; the one that reaches max_retries is followed by no wait; the raised
\* attempt changes neither all_foods nor page_no.
C16_RaisedAttemptBacksOffAndKeepsRecords ==
    [][ (Attempted /\ Raised(last')) =>
            /\ last'.retry = retry_count + 1
            /\ last'.retry < max_retries =>
                   (slept' = <<50 * last'.retry>> /\ state' = "FETCHING")
            /\ last'.retry >= max_retries => slept' = <<>>
            /\ page_no' = page_no
            /\ all_foods' = all_foods ]_vars

\* C17: retry_count is 0 when the first fetch of a page is made, whatever
\* happened on the pages before, and is below max_retries at every fetch.
C17_RetryCounterResetPerPage ==
    [][ Attempted =>
            /\ retry_count < max_retries
            /\ last'.attempt = 1 => retry_count = 0
            /\ last'.page # last.page => retry_count = 0 ]_vars

C17_Witness ==
    /\ state = "FETCHING"
    /\ last.page = 1
    /\ page_no = 2
    /\ last.outcome = "00"
    /\ last.attempt >= 2
    /\ retry_count = 0

\* C18: a status-"00" response adds the number of its raw items to
\* fetched_count, kept, skipped and dropped ones alike, and in every state
\* len(all_foods) + skipped_count <= fetched_count.
C18_FetchedCountsEveryRawItem ==
    /\ [](Len(all_foods) + skipped_count <= fetched_count)
    /\ [][ (Attempted /\ Answered00(last')) =>
               fetched_count' = fetched_count + Len(last'.raw) ]_vars
    /\ [][ (Attempted /\ ~Answered00(last')) => fetched_count' = fetched_count ]_vars

C18_Witness ==
    /\ last.outcome = "00"
    /\ \E i \in 1..Len(last.raw) : ParseOf(last.raw[i]) = NoFood
    /\ fetched_count >= 2
    /\ skipped_count >= 1
    /\ all_foods # <<>>
    /\ Len(all_foods) + skipped_count < fetched_count

\* C19: page p+1 is fetched only after page p was answered with status "00"
\* and processed: when the page to fetch is not the page of the last attempt,
\* that attempt was a processed "00" answer.
C19_NoPageSkipped ==
    (state = "FETCHING" /\ last.page >= 1 /\ page_no # last.page) =>
        (last.outcome = "00" /\ page_no = last.page + 1)

\* C20: a page is accounted once: after a status-"00" response with items
\* to the current page, fetched_count, skipped_count and all_foods have grown
\* since the page was entered by the items of that response only, not also by
\* those of an earlier attempt on the page that raised.
C20_PageAccountedOnce ==
    (last.page = page_no /\ Answered00(last) /\ last.raw # <<>>) =>
        LET res == ProcessItems(last.raw, include_all)
        IN  /\ fetched_count = count_start[1] + Len(last.raw)
            /\ skipped_count = count_start[2] + res.skipped
            /\ all_foods = page_start \o (IF res.raised THEN <<>> ELSE res.page_foods)

----------------------------------------------------------------------------
(* Properties of parse_food_item, checked under ParseSpec                  *)

\* a code or name that is absent, falsy or made of whitespace only
Blank(x) == Falsy(x) \/ (x.t = "str" /\ \A i \in 1..Len(x.v) : IsSpace(x.v[i]))

\* the values of RawCalories that are absent or that float() rejects
BadCalories ==
    { PyNone, Str(<<>>), Str(<<" ">>), Str(<<"a", "b", "c">>), Str(<<".">>),
      Str(<<"1", ".", "2", ".", "3">>), Str(<<"5", " ", "2">>),
      Str(<<"-">>), Str(<<"1", "e">>), Str(<<"5", FS, ",">>),
      Str(<<"1", "_", "_", "0">>) }

\* C13: every accumulated record has a non-empty foodCd, a non-empty name and
\* calories; parse_food_item yields None for every raw item whose stripped
\* code or name is empty or whose calories are absent or unparseable,
\* whatever its other fields are, and None is never appended.
C13_RecordsHaveRequiredFields ==
    /\ \A i \in 1..Len(all_foods) :
           /\ all_foods[i] \notin {NoFood, Raises}
           /\ Truthy(all_foods[i].foodCd)
           /\ all_foods[i].foodCd.v = Strip(all_foods[i].foodCd.v)
           /\ Truthy(all_foods[i].name)
           /\ all_foods[i].calories # NoFloat
    /\ ppc \in {"parsed", "raised"} =>
           /\ (Blank(item.FOOD_CD) \/ Blank(item.FOOD_NM_KR)
                   \/ item.AMT_NUM1 \in BadCalories)
                  => (parsed = NoFood /\ all_foods = <<>>)
           /\ parsed = NoFood => all_foods = <<>>

====
